---- MODULE Spec2Model ----
(***************************************************************************)
(* Lingora Chrome extension: the request pipeline of api.js, the token     *)
(* store in chrome.storage.local as used by api.js and background.js, and  *)
(* the auth synchroniser of content.js (content-script listener and the    *)
(* bridge script injected into the page).                                  *)
(*                                                                         *)
(* Granularity.  Every `await` is a scheduling point.  An awaited          *)
(* operation (a chrome.storage call, a fetch, a runtime message) takes     *)
(* effect in the step in which its promise resolves, and the code that     *)
(* follows it up to the next await runs in the same step.  The read of     *)
(* apiBaseUrl (never written by the extension) and the reading of a        *)
(* response body touch no shared state and are folded into the             *)
(* neighbouring step.                                                      *)
(***************************************************************************)
EXTENDS Integers, Sequences, FiniteSets, TLC

\* ------------------------------------------------------------------ bounds
NTokens == 3
NUsers == 2
MaxCalls == 2
MaxCount == 2

Null == 0
Tokens == 1..NTokens
Users == 1..NUsers
CallIds == 1..MaxCalls

\* The user a token was issued to by the backend.
Owner(t) == ((t - 1) % NUsers) + 1

\* Per-call counters saturate so that a non-terminating call is a cycle.
Sat(n) == IF n < MaxCount THEN n + 1 ELSE MaxCount

MaxCycles == 2
MaxWinQ == 2
MaxSend == 1
MaxEnv == 1
MaxStimuli == 2
MaxWait == 2
MaxTerm == 3
CycIds == 1..MaxCycles

\* auth-storage that JSON.parse (or localStorage itself) rejects.
Corrupt == -1

VARIABLES
    ext,        \* chrome.storage.local: accessToken, user
    session,    \* user the backend's refresh cookie belongs to, or Null
    calls,      \* api method invocations running in the service worker
    bgq,        \* runtime messages on their way to background.js (FIFO)
    lastAuth,   \* last checkAuth response given to a sender outside a cycle
    lastUser,   \* last getCurrentUser response
    peer,       \* the page's localStorage: accessToken, auth-storage user
    winq,       \* window messages posted and not yet dispatched (FIFO)
    cycles,     \* running instances of the content script's message listener
    ctx,        \* the content script's extension context is still valid
    envBudget,  \* remaining actions of the user / the web app
    lastCyc,    \* snapshot of the most recently completed cycle
    clean,      \* no store was written since that cycle completed
    last,       \* origin of the most recently handled syncAuth
    probe,      \* a response and what apiRequest makes of it
    lookup,     \* the content script's lookupWord(term) and what the page shows
    site        \* window.location of the page the content script runs in

vars == <<ext, session, calls, bgq, lastAuth, lastUser, peer, winq, cycles, ctx,
          envBudget, lastCyc, clean, last, probe, lookup, site>>
syncvars == <<peer, winq, cycles, ctx, envBudget, lastCyc, clean, last, probe,
              lookup, site>>
syncrest == <<peer, winq, cycles, ctx, envBudget, lastCyc, last, probe, lookup,
              site>>

\* ------------------------------------------------------- token store (ext)
\* chrome.storage.local restricted to the keys accessToken and user; Null
\* stands for a key that is absent (or holds null, which every reader of
\* the store treats alike through `|| null`).
NoCred == [accessToken |-> Null, user |-> Null]

getAuthToken(store) == store.accessToken

\* chrome.storage.local.set({accessToken: token})
\* (variant: the user is dropped with the old token)
setAuthToken_DropUser(store, token) ==
    [store EXCEPT !.accessToken = token, !.user = Null]
setAuthToken(store, token) == [store EXCEPT !.accessToken = token]

\* (variant: removes the accessToken key only)
clearAuthToken_TokenOnly(store) == [store EXCEPT !.accessToken = Null]
clearAuthToken(store) == NoCred

\* ---------------------------------------------------------------- headers
\* A headers object is a set of <<name, value>> pairs with distinct names.
Names(h) == {p[1] : p \in h}
\* {...a, ...b}
Spread(a, b) == b \cup {p \in a : p[1] \notin Names(b)}
\* h[name] = value
Put(h, name, value) == {p \in h : p[1] # name} \cup {<<name, value>>}
\* Header values: <<scheme or media type, token or Null>>.
Bearer(t) == <<"Bearer", t>>
Json == <<"application/json", Null>>

Kinds == {"lookupWord", "uploadImage", "login", "logout"}

\* The options object each api method passes to apiRequest.
\*   body: "none" | "json" (plain object) | "form" (FormData)
\*   hasHeaders: the caller supplied a headers property
Options(kind) ==
    CASE kind = "lookupWord" ->
           [method |-> "GET", body |-> "none", hasHeaders |-> FALSE,
            headers |-> {}, skipAuth |-> FALSE]
      [] kind = "uploadImage" ->
           [method |-> "POST", body |-> "form", hasHeaders |-> TRUE,
            headers |-> {}, skipAuth |-> FALSE]
      [] kind = "login" ->
           [method |-> "POST", body |-> "json", hasHeaders |-> FALSE,
            headers |-> {}, skipAuth |-> TRUE]
      [] OTHER ->
           [method |-> "POST", body |-> "none", hasHeaders |-> FALSE,
            headers |-> {}, skipAuth |-> FALSE]

\* const headers = {'Content-Type': 'application/json', ...options.headers};
\* if (token && !options.skipAuth) headers['Authorization'] = `Bearer ${token}`;
BuildHeaders(opts, token) ==
    LET h0 == Spread({<<"Content-Type", Json>>}, opts.headers)
    IN  IF token # Null /\ ~opts.skipAuth
        THEN Put(h0, "Authorization", Bearer(token))
        ELSE h0

\* fetchOptions = {method: ..., headers, credentials: 'include', ...options}:
\* the trailing spread of options replaces the computed headers by the
\* caller's headers property whenever the caller supplied one.
FetchHeaders(opts, token) ==
    IF opts.hasHeaders THEN opts.headers ELSE BuildHeaders(opts, token)

\* -------------------------------------------------------------- responses
\* A property an object does not have (undefined).
Absent == "<undefined>"

\* Bodies as sent: a JSON envelope with metaData, a JSON object with a
\* message, a plain text, nothing.
EnvelopeBody == "{\"metaData\":{}}"
MessageBody == "{\"message\":\"denied\"}"
PlainBody == "denied"
EmptyBody == ""

\* json: the content-type header includes 'application/json'.
Responses(statuses) ==
    {r \in [status : statuses, json : BOOLEAN,
            text : {EnvelopeBody, MessageBody, PlainBody, EmptyBody}] :
        IF r.json THEN r.text # PlainBody
                  ELSE r.text \in {PlainBody, EmptyBody}}

\* What a settled promise carries: a value (described by its message
\* property and whether it has metaData) or the message of an Error.
Return(message, meta) == [kind |-> "return", message |-> message, meta |-> meta]
Throw(message) == [kind |-> "throw", message |-> message, meta |-> FALSE]
NoOutcome == [kind |-> "none", message |-> Absent, meta |-> FALSE]
Undefined == Return(Absent, FALSE)

SyntaxErrorMsg == "Unexpected end of JSON input"
NetworkErrorMsg == "Failed to fetch"
SessionExpiredMsg == "Session expired. Please log in again."

\* await response.json()
JsonParse(text) ==
    CASE text = EnvelopeBody -> Return(Absent, TRUE)
      [] text = MessageBody -> Return("denied", FALSE)
      [] OTHER -> Throw(SyntaxErrorMsg)

\* contentType && contentType.includes('application/json')
\*     ? await response.json()
\*     : (text = await response.text(), text ? {message: text} : {})
ReadBody(r) ==
    IF r.json
    THEN JsonParse(r.text)
    ELSE IF r.text # "" THEN Return(r.text, FALSE) ELSE Return(Absent, FALSE)

\* response.ok
IsOk(status) == status >= 200 /\ status <= 299

\* Lines 88-101 of apiRequest on a response that did not take the 401 path.
\* (variant: the generic message is used even when the body has one)
HandleResponse_Generic(r) ==
    LET data == ReadBody(r)
    IN  IF data.kind = "throw" THEN data
        ELSE IF ~IsOk(r.status)
        THEN Throw("Request failed with status " \o ToString(r.status))
        ELSE data
HandleResponse(r) ==
    LET data == ReadBody(r)
    IN  IF data.kind = "throw" THEN data
        ELSE IF ~IsOk(r.status)
        THEN Throw(IF data.message \notin {Absent, ""}
                   THEN data.message
                   ELSE "Request failed with status " \o ToString(r.status))
        ELSE data

\* What the api method makes of the outcome of its apiRequest: login
\* returns data, logout catches everything and returns nothing, the others
\* return data.metaData.
MethodOutcome(kind, out) ==
    CASE kind = "logout" -> Undefined
      [] out.kind = "throw" -> out
      [] kind = "login" -> out
      [] OTHER -> Return(Absent, out.meta)

\* handleMessage: try { return await ... } catch (error) { return {error:
\* error.message} }.  error = Absent: the response has no error property.
\* (variant: the catch answers with a fixed text)
HandleMessage_FixedText(out) ==
    IF out.kind = "throw"
    THEN [error |-> "error", value |-> Undefined]
    ELSE [error |-> Absent, value |-> out]
HandleMessage(out) ==
    IF out.kind = "throw"
    THEN [error |-> out.message, value |-> Undefined]
    ELSE [error |-> Absent, value |-> out]

NoResponse == [error |-> Absent, value |-> NoOutcome]

\* Statuses a response may carry.
StatusCodes == {200, 201, 204, 400, 401, 403, 404, 409, 422, 500, 502, 503}

\* A response that reached lines 88-101 of apiRequest, and the outcome.
NoProbe == [r |-> [status |-> 200, json |-> FALSE, text |-> EmptyBody],
            skipAuth |-> FALSE, out |-> NoOutcome]

\* The response is processed.
ApplyHandleResponse ==
    /\ probe.out = NoOutcome
    /\ probe' = [probe EXCEPT !.out = HandleResponse(probe.r)]
    /\ UNCHANGED <<ext, session, calls, bgq, lastAuth, lastUser, peer, winq, cycles,
                   ctx, envBudget, lastCyc, clean, last, lookup, site>>

\* ------------------------------------------------------------------ calls
\* ret: how the call's latest apiRequest ended; resp: the response sent.
IdleCall == [pc |-> "idle", kind |-> "none", tok |-> Null, sent |-> {},
             nrefresh |-> 0, pend |-> NoCred,
             result |-> "none", ret |-> NoOutcome, resp |-> NoResponse,
             waited |-> 0]

\* fetch(url, fetchOptions) is issued with the token just read.
IssueFetch(rec, token) ==
    [rec EXCEPT !.pc = "fetch", !.tok = token,
                !.sent = FetchHeaders(Options(rec.kind), token)]

\* Entry of apiRequest (first call and the recursive call alike):
\* token = options.skipAuth ? null : await getAuthToken()
EnterRequest(rec) ==
    IF Options(rec.kind).skipAuth
    THEN IssueFetch(rec, Null)
    ELSE [rec EXCEPT !.pc = "token"]

\* apiRequest returned `how` ("ok") or threw it, back in the api method.
\*   login: a throw propagates; a result with a credential is stored in
\*          two awaited writes; logout: try/catch/finally clearAuthToken.
Finish(rec, how) ==
    [rec EXCEPT !.pc = "done", !.result = how, !.pend = NoCred,
                !.resp = HandleMessage(MethodOutcome(rec.kind, rec.ret))]

\* (variant: api.logout without its try/catch/finally)
Settle_LogoutRethrows(rec, how, out, cred) ==
    LET r == [rec EXCEPT !.tok = Null, !.sent = {}, !.ret = out, !.waited = 0]
    IN  CASE rec.kind = "logout" /\ out.kind # "throw" ->
               [r EXCEPT !.pc = "logoutClear"]
          [] rec.kind = "login" /\ how = "ok" /\ cred.accessToken # Null ->
               [r EXCEPT !.pc = "loginSetToken", !.pend = cred]
          [] OTHER -> [r EXCEPT !.pc = "done", !.result = how, !.pend = NoCred,
                                !.resp = HandleMessage(out)]
Settle(rec, how, out, cred) ==
    LET r == [rec EXCEPT !.tok = Null, !.sent = {}, !.ret = out, !.waited = 0]
    IN  CASE rec.kind = "logout" -> [r EXCEPT !.pc = "logoutClear"]
          [] rec.kind = "login" /\ how = "ok" /\ cred.accessToken # Null ->
               [r EXCEPT !.pc = "loginSetToken", !.pend = cred]
          [] OTHER -> Finish(r, how)

\* A handler of background.js starts an api method.  Each invocation of a
\* run has its own entry of calls; pc = "done" means handleMessage has
\* returned and the listener has sent the response, result being the
\* value returned or the error reported as {error: message}.
Invoke(c, kind) ==
    /\ calls[c].pc = "idle"
    /\ \A d \in CallIds : d < c => calls[d].pc # "idle"
    /\ envBudget > 0
    /\ envBudget' = envBudget - 1
    /\ calls' = [calls EXCEPT ![c] = EnterRequest([IdleCall EXCEPT !.kind = kind])]
    /\ UNCHANGED <<ext, session, bgq, lastAuth, lastUser, peer, winq, cycles, ctx,
                   lastCyc, clean, last, probe, lookup, site>>

\* Actions whose case throws before its first await: googleLogin calls
\* api.googleLogin, which api.js does not define, and a value without a
\* case reaches default.
OtherActions == {"googleLogin", "bogus"}

SyncThrow(action) ==
    IF action = "googleLogin"
    THEN Throw("api.googleLogin is not a function")
    ELSE Throw("Unknown action: " \o action)

InvokeOther(c, action) ==
    /\ calls[c].pc = "idle"
    /\ \A d \in CallIds : d < c => calls[d].pc # "idle"
    /\ envBudget > 0
    /\ envBudget' = envBudget - 1
    /\ calls' = [calls EXCEPT ![c] =
          Finish([IdleCall EXCEPT !.kind = action, !.ret = SyncThrow(action)],
                 "Threw")]
    /\ UNCHANGED <<ext, session, bgq, lastAuth, lastUser, peer, winq, cycles, ctx,
                   lastCyc, clean, last, probe, lookup, site>>

\* getAuthToken resolves; headers are built and the fetch is issued.
ReadToken(c) ==
    /\ calls[c].pc = "token"
    /\ calls' = [calls EXCEPT ![c] =
          IssueFetch([@ EXCEPT !.pend = NoCred], getAuthToken(ext))]
    /\ UNCHANGED <<ext, session, bgq, lastAuth, lastUser, syncvars>>

\* The fetch rejects: catch, console.error, rethrow.
\* (variant: the request is issued again)
FetchFails_Retry(c) ==
    /\ calls[c].pc = "fetch"
    /\ calls' = [calls EXCEPT ![c] =
          EnterRequest([@ EXCEPT !.tok = Null, !.sent = {}, !.waited = 0,
                                 !.ret = Throw(NetworkErrorMsg)])]
    /\ UNCHANGED <<ext, session, bgq, lastAuth, lastUser, syncvars>>
FetchFails(c) ==
    /\ calls[c].pc = "fetch"
    /\ calls' = [calls EXCEPT ![c] =
          Settle(@, "NetworkError", Throw(NetworkErrorMsg), NoCred)]
    /\ UNCHANGED <<ext, session, bgq, lastAuth, lastUser, syncvars>>

\* response.status === 401 && !options.skipAuth: refreshToken() is called
\* and its fetch issued.
\* (variant: skipAuth is not consulted)
Fetch401_AnyRequest(c) ==
    /\ calls[c].pc = "fetch"
    /\ calls' = [calls EXCEPT ![c].pc = "refresh", ![c].tok = Null,
                              ![c].sent = {}, ![c].waited = 0]
    /\ UNCHANGED <<ext, session, bgq, lastAuth, lastUser, syncvars>>
Fetch401(c) ==
    /\ calls[c].pc = "fetch"
    /\ ~Options(calls[c].kind).skipAuth
    /\ calls' = [calls EXCEPT ![c].pc = "refresh", ![c].tok = Null,
                              ![c].sent = {}, ![c].waited = 0]
    /\ UNCHANGED <<ext, session, bgq, lastAuth, lastUser, syncvars>>

\* A non-2xx answer that is not a 401 of an authenticated request.
FetchNotOk(c) ==
    /\ calls[c].pc = "fetch"
    /\ \E r \in Responses(IF Options(calls[c].kind).skipAuth
                           THEN {401, 500} ELSE {500}) :
         calls' = [calls EXCEPT ![c] =
                      Settle(@, "RequestFailed", HandleResponse(r), NoCred)]
    /\ UNCHANGED <<ext, session, bgq, lastAuth, lastUser, syncvars>>

\* A 2xx answer.  For login the body may carry metaData.accessToken and
\* metaData.user, and the backend then sets the refresh cookie; a
\* successful logout drops the cookie.
FetchOk(c) ==
    /\ calls[c].pc = "fetch"
    /\ \E r \in Responses({200}) :
         LET out == HandleResponse(r)
             how == IF out.kind = "throw" THEN "RequestFailed" ELSE "ok"
         IN  \/ /\ calls[c].kind = "login"
                /\ r.json /\ r.text = EnvelopeBody
                /\ \E t \in Tokens :
                     /\ calls' = [calls EXCEPT ![c] =
                           Settle(@, how, out,
                                  [accessToken |-> t, user |-> Owner(t)])]
                     /\ session' = Owner(t)
             \/ /\ calls[c].kind = "login"
                /\ calls' = [calls EXCEPT ![c] = Settle(@, how, out, NoCred)]
                /\ UNCHANGED session
             \/ /\ calls[c].kind = "logout"
                /\ calls' = [calls EXCEPT ![c] = Settle(@, how, out, NoCred)]
                /\ session' = Null
             \/ /\ calls[c].kind \notin {"login", "logout"}
                /\ calls' = [calls EXCEPT ![c] = Settle(@, how, out, NoCred)]
                /\ UNCHANGED session
    /\ UNCHANGED <<ext, bgq, lastAuth, lastUser, syncvars>>

\* refreshToken: response.ok, newToken = data.metaData.accessToken; the
\* token is issued to the holder of the refresh cookie.
RefreshOk(c) ==
    /\ calls[c].pc = "refresh"
    /\ session # Null
    /\ \E t \in Tokens :
         /\ Owner(t) = session
         /\ calls' = [calls EXCEPT ![c].pc = "setToken", ![c].waited = 0,
                                   ![c].pend = [accessToken |-> t, user |-> Null]]
    /\ UNCHANGED <<ext, session, bgq, lastAuth, lastUser, syncvars>>

\* refreshToken: network error or non-2xx, returns false; the caller
\* issues clearAuthToken.
RefreshFails(c) ==
    /\ calls[c].pc = "refresh"
    /\ calls' = [calls EXCEPT ![c].pc = "clear", ![c].waited = 0]
    /\ UNCHANGED <<ext, session, bgq, lastAuth, lastUser, syncvars>>

\* refreshToken: a 2xx answer whose body is not the envelope expected.
\*   response.json() rejects or data.metaData is missing: the error is
\*     caught, return false;
\*   data.metaData.accessToken is null: setAuthToken(null), return true.
RefreshMalformed(c) ==
    /\ calls[c].pc = "refresh"
    /\ \/ calls' = [calls EXCEPT ![c].pc = "clear", ![c].waited = 0]
       \/ calls' = [calls EXCEPT ![c].pc = "setToken", ![c].waited = 0,
                                 ![c].pend = NoCred]
    /\ UNCHANGED <<ext, session, bgq, lastAuth, lastUser, syncvars>>

\* await setAuthToken(newToken); return true; return apiRequest(endpoint, options)
\* (pend keeps the token just stored until the reissued request is built)
RetryAfterRefresh(rec) == EnterRequest(rec)

SetToken(c) ==
    /\ calls[c].pc = "setToken"
    /\ ext' = setAuthToken(ext, calls[c].pend.accessToken)
    /\ calls' = [calls EXCEPT ![c] =
          RetryAfterRefresh([@ EXCEPT !.nrefresh = Sat(@)])]
    /\ clean' = FALSE
    /\ UNCHANGED <<session, bgq, lastAuth, lastUser, syncrest>>

\* await clearAuthToken(); throw new Error('Session expired. Please log in again.')
ClearAndThrow(c) ==
    /\ calls[c].pc = "clear"
    /\ ext' = clearAuthToken(ext)
    /\ calls' = [calls EXCEPT ![c] =
          Settle(@, "SessionExpired", Throw(SessionExpiredMsg), NoCred)]
    /\ clean' = FALSE
    /\ UNCHANGED <<session, bgq, lastAuth, lastUser, syncrest>>

\* api.login: await setAuthToken(data.metaData.accessToken)
LoginSetToken(c) ==
    /\ calls[c].pc = "loginSetToken"
    /\ ext' = setAuthToken(ext, calls[c].pend.accessToken)
    /\ calls' = [calls EXCEPT ![c].pc = "loginSetUser"]
    /\ clean' = FALSE
    /\ UNCHANGED <<session, bgq, lastAuth, lastUser, syncrest>>

\* api.login: await chrome.storage.local.set({user: data.metaData.user})
LoginSetUser(c) ==
    /\ calls[c].pc = "loginSetUser"
    /\ ext' = [ext EXCEPT !.user = calls[c].pend.user]
    /\ calls' = [calls EXCEPT ![c] = Finish(@, "ok")]
    /\ clean' = FALSE
    /\ UNCHANGED <<session, bgq, lastAuth, lastUser, syncrest>>

\* api.logout: finally { await clearAuthToken() }
LogoutClear(c) ==
    /\ calls[c].pc = "logoutClear"
    /\ ext' = clearAuthToken(ext)
    /\ calls' = [calls EXCEPT ![c] = Finish(@, "ok")]
    /\ clean' = FALSE
    /\ UNCHANGED <<session, bgq, lastAuth, lastUser, syncrest>>

\* const API_CONFIG = {baseURL: 'https://lingora-api.onrender.com' ||
\* 'http://localhost:4000', timeout: 10000}: the first operand is truthy.
API_CONFIG == [baseURL |-> "https://lingora-api.onrender.com", timeout |-> 10000]

\* config.js: CONFIG.backend.baseUrl for a value of ENVIRONMENT.
Environments == {"localhost", "production"}
CONFIG(ENVIRONMENT) ==
    [environment |-> ENVIRONMENT,
     backend |-> [baseUrl |-> IF ENVIRONMENT = "localhost"
                              THEN "http://localhost:4000"
                              ELSE "https://lingora-be-dxce.onrender.com"]]

\* Values of the apiBaseUrl key of chrome.storage.local: not set, the empty
\* string, a URL.
StoredBaseUrls == {Absent, "", "http://localhost:4000", "https://staging.lingora.test"}

\* return result.apiBaseUrl || API_CONFIG.baseURL
getApiBaseUrl(apiBaseUrl) ==
    IF apiBaseUrl \notin {Absent, ""} THEN apiBaseUrl ELSE API_CONFIG.baseURL

\* chrome.storage.local with every key api.js uses.
Storages ==
    [accessToken : Tokens \cup {Null}, user : Users \cup {Null},
     apiBaseUrl : StoredBaseUrls]

\* refreshToken on a 2xx answer: await setAuthToken(newToken); return true
RefreshStores ==
    /\ ~probe.applied
    /\ probe' = [probe EXCEPT !.after = setAuthToken(probe.store, probe.token),
                              !.applied = TRUE]
    /\ UNCHANGED <<ext, session, calls, bgq, lastAuth, lastUser, peer, winq,
                   cycles, ctx, envBudget, lastCyc, clean, last, lookup, site>>

\* The endpoints api.js passes to apiRequest; none of them starts with
\* 'http'.
Endpoints ==
    {"/auth/login", "/auth/logout", "/auth/refresh-token",
     "/words/dictionary?term=hello", "/translate/phrase", "/studysets/own",
     "/studysets", "/uploads/image"}

\* const url = endpoint.startsWith('http') ? endpoint : `${baseURL}${endpoint}`
RequestUrl(apiBaseUrl, endpoint) == getApiBaseUrl(apiBaseUrl) \o endpoint

\* apiRequest computes the URL it will fetch.
ResolveUrl ==
    /\ probe.url = Absent
    /\ probe' = [probe EXCEPT !.url = RequestUrl(probe.apiBaseUrl, probe.endpoint)]
    /\ UNCHANGED <<ext, session, calls, bgq, lastAuth, lastUser, peer, winq,
                   cycles, ctx, envBudget, lastCyc, clean, last, lookup, site>>

\* Time passes while a fetch (of the request or of the refresh) is
\* pending; waited is the time since it was issued, in milliseconds.
Tick(c) ==
    /\ calls[c].pc \in {"fetch", "refresh"}
    /\ calls[c].waited < MaxWait * API_CONFIG.timeout
    /\ calls' = [calls EXCEPT ![c].waited = @ + API_CONFIG.timeout]
    /\ UNCHANGED <<ext, session, bgq, lastAuth, lastUser, syncvars>>

\* ------------------------------------------------- background.js handlers
\* api.getCurrentUser: result.user || null
getCurrentUser(store) == store.user

\* case 'checkAuth'
\* (variants: the answer leaves the user out; the answer always says
\* authenticated)
HandleCheckAuth_AlwaysAuth(store) ==
    [isAuthenticated |-> TRUE,
     accessToken |-> store.accessToken,
     user |-> store.user]
HandleCheckAuth_NoUser(store) ==
    [isAuthenticated |-> store.accessToken # Null,
     accessToken |-> store.accessToken,
     user |-> Null]
HandleCheckAuth(store) ==
    [isAuthenticated |-> store.accessToken # Null,
     accessToken |-> store.accessToken,
     user |-> store.user]

\* case 'syncAuth'
\* (variants: the set writes the token only; the remove leaves the user)
HandleSyncAuth_TokenOnly(store, req) ==
    IF req.accessToken # Null
    THEN [store EXCEPT !.accessToken = req.accessToken]
    ELSE NoCred
HandleSyncAuth_KeepUser(store, req) ==
    IF req.accessToken # Null
    THEN [accessToken |-> req.accessToken, user |-> req.user]
    ELSE [store EXCEPT !.accessToken = Null]
HandleSyncAuth(store, req) ==
    IF req.accessToken # Null
    THEN [accessToken |-> req.accessToken, user |-> req.user]
    ELSE NoCred

NoAuth == [isAuthenticated |-> FALSE, accessToken |-> Null, user |-> Null]

\* Runtime messages.  from: the listener instance awaiting the response
\* (0: nobody in the page is waiting); tag: what sent it.
BgMsg(action, token, user, from, tag) ==
    [action |-> action, accessToken |-> token, user |-> user,
     from |-> from, tag |-> tag]

\* ------------------------------------------------------ the injected bridge
NoSnapshot == [valid |-> FALSE, accessToken |-> Null, user |-> Null]

\* The roles of a user object, as the backend returned them with the user:
\* some users have roles, some have none.
RolesOf(u) == IF u % 2 = 1 THEN <<"LEARNER", "ADMIN">> ELSE <<>>

NoRole == "null"

\* data.user && data.user.roles && data.user.roles[0]
\*     ? data.user.roles[0].name : null
\* (variant: the last role instead of the first)
ActiveRole_Last(user) ==
    IF user # Null /\ RolesOf(user) # <<>>
    THEN RolesOf(user)[Len(RolesOf(user))]
    ELSE NoRole
ActiveRole(user) ==
    IF user # Null /\ RolesOf(user) # <<>>
    THEN RolesOf(user)[1]
    ELSE NoRole

\* localStorage as the web app itself leaves it: accessToken, and in
\* auth-storage the persisted user (auth), isAuthenticated and activeRole.
WebStore(t, a) ==
    [accessToken |-> t, auth |-> a,
     isAuthenticated |-> (t # Null /\ a # Null /\ a # Corrupt),
     activeRole |-> IF t # Null /\ a # Null /\ a # Corrupt
                    THEN ActiveRole(a) ELSE NoRole]

\* getAuthState(): null when reading or parsing fails.
\* (variant: the token is reported although auth-storage does not parse)
getAuthState_TokenOnFailure(store) ==
    IF store.auth = Corrupt
    THEN [valid |-> TRUE, accessToken |-> store.accessToken, user |-> Null]
    ELSE [valid |-> TRUE, accessToken |-> store.accessToken, user |-> store.auth]
getAuthState(store) ==
    IF store.auth = Corrupt
    THEN NoSnapshot
    ELSE [valid |-> TRUE, accessToken |-> store.accessToken, user |-> store.auth]

WinMsg(type, data) ==
    [type |-> type, valid |-> data.valid, accessToken |-> data.accessToken,
     user |-> data.user]

\* window.postMessage({type: 'LINGORA_WEB_AUTH_DATA', data: getAuthState()}, '*')
Report(store) == WinMsg("LINGORA_WEB_AUTH_DATA", getAuthState(store))

\* setAuthState(data): writes only for a non-empty token.
\* (variant: auth-storage is left as it was)
setAuthState_TokenOnly(store, data) ==
    IF data.accessToken # Null
    THEN [store EXCEPT !.accessToken = data.accessToken]
    ELSE store
setAuthState(store, data) ==
    IF data.accessToken # Null
    THEN [accessToken |-> data.accessToken, auth |-> data.user,
          isAuthenticated |-> TRUE, activeRole |-> ActiveRole(data.user)]
    ELSE store

\* ------------------------------------------------ content-script listener
\* window.location.hostname and window.location.port of pages the content
\* script is injected into.
WebApp == [hostname |-> "lingora-web-app.vercel.app", port |-> ""]
Locations ==
    {WebApp,
     [hostname |-> "localhost", port |-> "3000"],
     [hostname |-> "localhost", port |-> "8080"],
     [hostname |-> "lingora-web-app.vercel.app.example.net", port |-> ""],
     [hostname |-> "www.example.com", port |-> "3000"]}

\* isLocalhost || isVercel; syncAuthWithWebApp returns at once on any other
\* page: no bridge is injected, no message listener is added.
\* (variant: localhost on any port)
isLingoraDomain_AnyPort(location) ==
    \/ location.hostname = "localhost"
    \/ location.hostname = "lingora-web-app.vercel.app"
isLingoraDomain(location) ==
    \/ location.hostname = "localhost" /\ location.port = "3000"
    \/ location.hostname = "lingora-web-app.vercel.app"

\* diag: the catch block logged a diagnostic.
IdleCycle == [pc |-> "idle", webAuth |-> NoSnapshot, extAuth |-> NoAuth,
              did |-> "none", rerun |-> FALSE, diag |-> FALSE]

\* Messages of the errors chrome.runtime.sendMessage fails with once the
\* extension was reloaded or its service worker cannot be reached.
InvalidatedMsg == "Extension context invalidated."
SendErrors ==
    {InvalidatedMsg, "Could not establish connection. Receiving end does not exist."}

\* catch (e) { if (e.message && e.message.includes('Extension context
\* invalidated')) console.log(...) }
Diagnosed(msg) == msg = InvalidatedMsg

\* The listener instance ends in its catch block.
Fail(cyc, msg) == [cyc EXCEPT !.pc = "done", !.did = "fail", !.diag = Diagnosed(msg)]

Snapshot(m) == [valid |-> m.valid, accessToken |-> m.accessToken, user |-> m.user]

Active(k) == cycles[k].pc \notin {"idle", "done"}

\* if (webAuth && webAuth.accessToken)
\*     if (!extAuth.isAuthenticated || extAuth.accessToken !== webAuth.accessToken)
\* (variant: adopts only over a different token, not when logged out)
AdoptCond_OnlyDiffer(w, e) ==
    /\ w.valid /\ w.accessToken # Null
    /\ e.isAuthenticated /\ e.accessToken # w.accessToken
\* (variant: a different user under the same token is adopted too)
AdoptCond_UserToo(w, e) ==
    /\ w.valid /\ w.accessToken # Null
    /\ (~e.isAuthenticated \/ e.accessToken # w.accessToken \/ e.user # w.user)
AdoptCond(w, e) ==
    /\ w.valid /\ w.accessToken # Null
    /\ (~e.isAuthenticated \/ e.accessToken # w.accessToken)

\* else if (extAuth.isAuthenticated && (!webAuth || !webAuth.accessToken))
PushCond(w, e) ==
    /\ ~(w.valid /\ w.accessToken # Null)
    /\ e.isAuthenticated
    /\ (~w.valid \/ w.accessToken = Null)

\* if (extAuth.isAuthenticated && webAuth && !webAuth.accessToken)
\* (variant: the logout sync runs on a missing snapshot only)
LogoutCond_NullSnapshotOnly(w, e) == e.isAuthenticated /\ ~w.valid
LogoutCond(w, e) == e.isAuthenticated /\ w.valid /\ w.accessToken = Null

\* A page-load of a Lingora page: scripts of the old document are gone, the
\* messages they still had in flight to the background are answered to
\* nobody, the bridge is injected afresh and posts its initial report.
Orphan(q) == [i \in 1..Len(q) |-> [q[i] EXCEPT !.from = 0]]

\* The window dispatches its oldest message to the bridge's listener and to
\* the content script's listener.
\* LINGORA_WEB_AUTH_DATA: a listener instance starts and sends checkAuth.
DeliverReport(k) ==
    /\ isLingoraDomain(site)
    /\ winq # <<>>
    /\ Head(winq).type = "LINGORA_WEB_AUTH_DATA"
    /\ cycles[k].pc = "idle"
    /\ \A j \in CycIds : j < k => cycles[j].pc # "idle"
    /\ winq' = Tail(winq)
    /\ LET rr == /\ lastCyc.set /\ clean
                 /\ lastCyc.webAuth = Snapshot(Head(winq))
                 /\ bgq = <<>>
                 /\ \A j \in CycIds : ~Active(j)
           c0 == [IdleCycle EXCEPT !.webAuth = Snapshot(Head(winq)), !.rerun = rr]
       IN  IF ctx
           THEN /\ cycles' = [cycles EXCEPT ![k] = [c0 EXCEPT !.pc = "check"]]
                /\ bgq' = Append(bgq, BgMsg("checkAuth", Null, Null, k, "cycle"))
                /\ UNCHANGED <<lastCyc, clean>>
           ELSE /\ \E msg \in SendErrors :
                     cycles' = [cycles EXCEPT ![k] = Fail(c0, msg)]
                /\ lastCyc' = [set |-> TRUE, webAuth |-> c0.webAuth]
                /\ clean' = TRUE
                /\ UNCHANGED bgq
    /\ UNCHANGED <<ext, session, calls, lastAuth, lastUser, peer, ctx, envBudget, last, probe, lookup, site>>

\* The continuation after `await sendMessage({action: 'checkAuth'})`.
Decide(k) ==
    /\ cycles[k].pc = "decide"
    /\ LET w == cycles[k].webAuth
           e == cycles[k].extAuth
       IN  \/ /\ AdoptCond(w, e)
              /\ bgq' = Append(bgq, BgMsg("syncAuth", w.accessToken, w.user,
                                          k, "cycle"))
              /\ cycles' = [cycles EXCEPT ![k].pc = "sync", ![k].did = "adopt"]
              /\ UNCHANGED <<winq, lastCyc, clean>>
           \/ /\ ~AdoptCond(w, e) /\ PushCond(w, e) /\ LogoutCond(w, e)
              /\ winq' = Append(winq, WinMsg("LINGORA_SET_WEB_AUTH",
                            [valid |-> TRUE, accessToken |-> e.accessToken,
                             user |-> e.user]))
              /\ bgq' = Append(bgq, BgMsg("syncAuth", Null, Null, k, "cycle"))
              /\ cycles' = [cycles EXCEPT ![k].pc = "sync",
                                          ![k].did = "pushLogout"]
              /\ UNCHANGED <<lastCyc, clean>>
           \/ /\ ~AdoptCond(w, e) /\ PushCond(w, e) /\ ~LogoutCond(w, e)
              /\ winq' = Append(winq, WinMsg("LINGORA_SET_WEB_AUTH",
                            [valid |-> TRUE, accessToken |-> e.accessToken,
                             user |-> e.user]))
              /\ cycles' = [cycles EXCEPT ![k].pc = "done", ![k].did = "push"]
              /\ lastCyc' = [set |-> TRUE, webAuth |-> w]
              /\ clean' = TRUE
              /\ UNCHANGED bgq
           \/ /\ ~AdoptCond(w, e) /\ ~PushCond(w, e)
              /\ cycles' = [cycles EXCEPT ![k].pc = "done"]
              /\ lastCyc' = [set |-> TRUE, webAuth |-> w]
              /\ clean' = TRUE
              /\ UNCHANGED <<winq, bgq>>
    /\ UNCHANGED <<ext, session, calls, lastAuth, lastUser, peer, ctx, envBudget, last, probe, lookup, site>>

\* The listener instance has returned.
CycleEnd(k) ==
    /\ cycles[k].pc = "done"
    /\ cycles' = [cycles EXCEPT ![k] = IdleCycle]
    /\ UNCHANGED <<ext, session, calls, bgq, lastAuth, lastUser, peer, winq, ctx,
                   envBudget, lastCyc, clean, last, probe, lookup, site>>

\* LINGORA_INVALID_TOKEN: await sendMessage({action: 'syncAuth', accessToken: null})
DeliverInvalidToken ==
    /\ isLingoraDomain(site)
    /\ winq # <<>>
    /\ Head(winq).type = "LINGORA_INVALID_TOKEN"
    /\ winq' = Tail(winq)
    /\ bgq' = IF ctx
              THEN Append(bgq, BgMsg("syncAuth", Null, Null, 0, "invalid"))
              ELSE bgq
    /\ UNCHANGED <<ext, session, calls, lastAuth, lastUser, peer, cycles, ctx,
                   envBudget, lastCyc, clean, last, probe, lookup, site>>

\* LINGORA_SET_WEB_AUTH reaches the bridge: setAuthState(event.data.data),
\* which reloads the page after writing.
DeliverSetWebAuth ==
    /\ isLingoraDomain(site)
    /\ winq # <<>>
    /\ Head(winq).type = "LINGORA_SET_WEB_AUTH"
    /\ peer' = setAuthState(peer, Head(winq))
    /\ IF Head(winq).accessToken # Null
       THEN /\ winq' = <<Report(peer')>>
            /\ cycles' = [k \in CycIds |-> IdleCycle]
            /\ bgq' = Orphan(bgq)
            /\ ctx' = TRUE
            /\ clean' = FALSE
       ELSE /\ winq' = Tail(winq)
            /\ UNCHANGED <<cycles, bgq, ctx, clean>>
    /\ UNCHANGED <<ext, session, calls, lastAuth, lastUser, envBudget, lastCyc, last, probe, lookup, site>>

\* LINGORA_GET_WEB_AUTH reaches the bridge: it posts what getAuthState()
\* returns now.
DeliverGetWebAuth ==
    /\ isLingoraDomain(site)
    /\ winq # <<>>
    /\ Head(winq).type = "LINGORA_GET_WEB_AUTH"
    /\ winq' = Append(Tail(winq), Report(peer))
    /\ UNCHANGED <<ext, session, calls, bgq, lastAuth, lastUser, peer, cycles, ctx,
                   envBudget, lastCyc, clean, last, probe, lookup, site>>

\* chrome.runtime.onMessage: handleMessage for the oldest message.
BgCheckAuth ==
    /\ bgq # <<>>
    /\ Head(bgq).action = "checkAuth"
    /\ bgq' = Tail(bgq)
    /\ LET m == Head(bgq)
           r == HandleCheckAuth(ext)
       IN  IF m.from = 0
           THEN /\ lastAuth' = r
                /\ UNCHANGED cycles
           ELSE /\ cycles' = [cycles EXCEPT ![m.from].pc = "decide",
                                            ![m.from].extAuth = r,
                                            ![m.from].rerun = @ /\ clean]
                /\ UNCHANGED lastAuth
    /\ UNCHANGED <<ext, session, calls, lastUser, peer, winq, ctx, envBudget,
                   lastCyc, clean, last, probe, lookup, site>>

\* case 'getCurrentUser': the answer goes to the popup.
BgGetCurrentUser ==
    /\ bgq # <<>>
    /\ Head(bgq).action = "getCurrentUser"
    /\ bgq' = Tail(bgq)
    /\ lastUser' = getCurrentUser(ext)
    /\ UNCHANGED <<ext, session, calls, lastAuth, peer, winq, cycles, ctx,
                   envBudget, lastCyc, clean, last, probe, lookup, site>>

BgSyncAuth ==
    /\ bgq # <<>>
    /\ Head(bgq).action = "syncAuth"
    /\ bgq' = Tail(bgq)
    /\ LET m == Head(bgq)
       IN  /\ ext' = HandleSyncAuth(ext, m)
           /\ last' = [tag |-> m.tag,
                        wasAuth |-> m.tag = "invalid" /\ ext.accessToken # Null]
           /\ IF m.from = 0
              THEN /\ clean' = FALSE
                   /\ UNCHANGED <<cycles, lastCyc>>
              ELSE /\ cycles' = [cycles EXCEPT ![m.from].pc = "done"]
                   /\ lastCyc' = [set |-> TRUE, webAuth |-> cycles[m.from].webAuth]
                   /\ clean' = TRUE
    /\ UNCHANGED <<session, calls, lastAuth, lastUser, peer, winq, ctx, envBudget, probe, lookup, site>>


\* ------------------------------------------------- content-script lookup
\* A selected text, trimmed: characters, with spaces or line breaks only
\* between them.
Chars == {"a", " ", "\n"}
Terms ==
    {t \in UNION {[1..n -> Chars] : n \in 1..MaxTerm} :
        t[1] = "a" /\ t[Len(t)] = "a"}

\* term.split(' '): one piece more than there are spaces.
Split(term) == 1 + Cardinality({i \in DOMAIN term : term[i] = " "})

\* const isPhrase = term.split(' ').length > 1
\* (variant: any white space separates words)
isPhrase_AnyWhiteSpace(term) == \E i \in DOMAIN term : term[i] # "a"
isPhrase(term) == Split(term) > 1

\* view: what the popup element shows; nWord, nPhrase: lookupWord and
\* translatePhrase messages sent by the running lookup; resp: the answer
\* to the one it sent.
IdleLookup == [pc |-> "idle", term |-> <<>>, nWord |-> 0, nPhrase |-> 0,
               resp |-> NoResponse, view |-> "none", message |-> Absent]

\* The text shown when sendMessage fails (its diacritics dropped).
UpdatedError == "Extension da duoc cap nhat. Vui long tai lai trang (nhan F5)."
TypeErrorMsg == "Cannot read properties of undefined (reading 'error')"

\* What background.js may answer to lookupWord or translatePhrase.
LookupAnswers ==
    {HandleMessage(MethodOutcome("lookupWord", out)) :
        out \in {Return(Absent, TRUE), Return(Absent, FALSE),
                 Throw(NetworkErrorMsg), Throw(SessionExpiredMsg),
                 Throw("denied")}}

\* The text shown when sendMessage fails otherwise and chrome.runtime.id
\* is gone (its diacritics dropped).
BrokenError == "Extension bi loi. Vui long reload extension va tai lai trang."

\* A sendMessage of the lookup rejects with msg after the extension context
\* was lost: the inner catch around checkAuth picks a text, the outer
\* catch shows the error's own message.
LookupFail(l, msg) ==
    CASE l.pc = "auth" ->
           [l EXCEPT !.pc = "idle", !.view = "error",
                     !.message = IF Diagnosed(msg) THEN UpdatedError
                                 ELSE BrokenError]
      [] l.pc = "wait" ->
           [l EXCEPT !.pc = "idle", !.view = "error", !.message = msg]
      [] OTHER -> l

\* if (!authCheck || !authCheck.isAuthenticated) { showLoginPromptPopup(); return; }
\* (variant: the lookup goes on without asking for a login)
NeedsLogin_Never(authCheck) == FALSE
NeedsLogin(authCheck) == ~authCheck.isAuthenticated

\* The selection button is clicked: lookupWord(term) shows the loading
\* popup and sends checkAuth.
StartLookup(term) ==
    /\ lookup.pc = "idle"
    /\ envBudget > 0
    /\ envBudget' = envBudget - 1
    /\ IF ctx
       THEN lookup' = [IdleLookup EXCEPT !.pc = "auth", !.term = term,
                                         !.view = "loading"]
       ELSE \E msg \in SendErrors :
              lookup' = LookupFail([IdleLookup EXCEPT !.pc = "auth",
                                                      !.term = term], msg)
    /\ UNCHANGED <<ext, session, calls, bgq, lastAuth, lastUser, peer, winq,
                   cycles, ctx, lastCyc, clean, last, probe, site>>

\* checkAuth is answered: the login prompt, or the message for the term.
LookupAuthAnswer ==
    /\ lookup.pc = "auth"
    /\ LET authCheck == HandleCheckAuth(ext)
       IN  lookup' =
             IF NeedsLogin(authCheck)
             THEN [lookup EXCEPT !.pc = "idle", !.view = "login"]
             ELSE IF isPhrase(lookup.term)
             THEN [lookup EXCEPT !.pc = "wait", !.nPhrase = @ + 1]
             ELSE [lookup EXCEPT !.pc = "wait", !.nWord = @ + 1]
    /\ UNCHANGED <<ext, session, calls, bgq, lastAuth, lastUser, peer, winq,
                   cycles, ctx, envBudget, lastCyc, clean, last, probe, site>>

\* The answer to lookupWord or translatePhrase arrives.
LookupAnswer ==
    /\ lookup.pc = "wait"
    /\ \E resp \in LookupAnswers :
         lookup' =
           IF resp.error \notin {Absent, ""}
           THEN [lookup EXCEPT !.pc = "idle", !.resp = resp, !.view = "error",
                               !.message = resp.error]
           ELSE IF resp.error = Absent /\ ~resp.value.meta
           THEN [lookup EXCEPT !.pc = "idle", !.resp = resp, !.view = "error",
                               !.message = TypeErrorMsg]
           ELSE [lookup EXCEPT !.pc = "idle", !.resp = resp,
                               !.view = "dictionary"]
    /\ UNCHANGED <<ext, session, calls, bgq, lastAuth, lastUser, peer, winq,
                   cycles, ctx, envBudget, lastCyc, clean, last, probe, site>>

\* ------------------------------------------------------------ environment
Cred(t) == [accessToken |-> t, user |-> Owner(t)]

\* What the web app keeps in localStorage: nothing, a credential, a token
\* whose persisted state has no user yet, or an unreadable auth-storage.
PeerStates ==
    {WebStore(Null, Null), WebStore(Null, Corrupt)}
    \cup {WebStore(t, Owner(t)) : t \in Tokens}
    \cup {WebStore(t, Null) : t \in Tokens}

\* Every content of localStorage the bridge may find, a token next to an
\* auth-storage that does not parse included.
AllPeerStates == PeerStates \cup {WebStore(t, Corrupt) : t \in Tokens}

\* Another tab of the web app writes accessToken or auth-storage: the
\* storage event makes the bridge report the state it then reads.  One
\* event fires per key written, so a report may repeat the one before it.
StorageEvent ==
    /\ isLingoraDomain(site)
    /\ envBudget > 0
    /\ Len(winq) < MaxWinQ
    /\ \E p \in PeerStates :
         /\ peer' = p
         /\ winq' = Append(winq, Report(p))
    /\ envBudget' = envBudget - 1
    /\ clean' = FALSE
    /\ UNCHANGED <<ext, session, calls, bgq, lastAuth, lastUser, cycles, ctx, lastCyc, last, probe, lookup, site>>

\* A script of the page posts a report of its own making.
PostWebAuthData ==
    /\ envBudget > 0
    /\ Len(winq) < MaxWinQ
    /\ \E t \in Tokens \cup {Null}, u \in Users \cup {Null} :
         winq' = Append(winq, WinMsg("LINGORA_WEB_AUTH_DATA",
                     [valid |-> TRUE, accessToken |-> t, user |-> u]))
    /\ envBudget' = envBudget - 1
    /\ UNCHANGED <<ext, session, calls, bgq, lastAuth, lastUser, peer, cycles,
                   ctx, lastCyc, clean, last, probe, lookup, site>>

\* On a page that is not the web app the window dispatches its oldest
\* message to the page's own listeners only.
Discard ==
    /\ ~isLingoraDomain(site)
    /\ winq # <<>>
    /\ winq' = Tail(winq)
    /\ UNCHANGED <<ext, session, calls, bgq, lastAuth, lastUser, peer, cycles,
                   ctx, envBudget, lastCyc, clean, last, probe, lookup, site>>

\* The web app rejects the token it was given and says so.
PostInvalidToken ==
    /\ envBudget > 0
    /\ Len(winq) < MaxWinQ
    /\ winq' = Append(winq, WinMsg("LINGORA_INVALID_TOKEN", NoSnapshot))
    /\ envBudget' = envBudget - 1
    /\ UNCHANGED <<ext, session, calls, bgq, lastAuth, lastUser, peer, cycles, ctx,
                   lastCyc, clean, last, probe, lookup, site>>

\* A script of the page posts a snapshot request to the window.
PostGetWebAuth ==
    /\ envBudget > 0
    /\ Len(winq) < MaxWinQ
    /\ winq' = Append(winq, WinMsg("LINGORA_GET_WEB_AUTH", NoSnapshot))
    /\ envBudget' = envBudget - 1
    /\ UNCHANGED <<ext, session, calls, bgq, lastAuth, lastUser, peer, cycles, ctx,
                   lastCyc, clean, last, probe, lookup, site>>

\* A script of the page posts LINGORA_SET_WEB_AUTH with data of its own
\* choice, an empty token included.
PostSetWebAuth ==
    /\ envBudget > 0
    /\ Len(winq) < MaxWinQ
    /\ \E t \in Tokens \cup {Null}, u \in Users \cup {Null} :
         winq' = Append(winq, WinMsg("LINGORA_SET_WEB_AUTH",
                     [valid |-> TRUE, accessToken |-> t, user |-> u]))
    /\ envBudget' = envBudget - 1
    /\ UNCHANGED <<ext, session, calls, bgq, lastAuth, lastUser, peer, cycles, ctx,
                   lastCyc, clean, last, probe, lookup, site>>

\* The extension is reloaded or updated while the page stays open: messages
\* not yet handled are lost and every pending sendMessage fails.
Invalidate ==
    /\ envBudget > 0
    /\ ctx
    /\ ctx' = FALSE
    /\ bgq' = <<>>
    /\ \E msg \in SendErrors :
         /\ cycles' = [k \in CycIds |->
                         IF cycles[k].pc \in {"check", "sync"}
                         THEN Fail(cycles[k], msg)
                         ELSE cycles[k]]
         /\ lookup' = LookupFail(lookup, msg)
    /\ envBudget' = envBudget - 1
    /\ UNCHANGED <<ext, session, calls, lastAuth, lastUser, peer, winq, lastCyc,
                   clean, last, probe, site>>

\* The popup asks for the auth state (popup.js).
PopupCheckAuth ==
    /\ Len(bgq) < MaxSend
    /\ envBudget > 0
    /\ envBudget' = envBudget - 1
    /\ bgq' = Append(bgq, BgMsg("checkAuth", Null, Null, 0, "popup"))
    /\ UNCHANGED <<ext, session, calls, lastAuth, lastUser, peer, winq, cycles, ctx,
                   lastCyc, clean, last, probe, lookup, site>>

\* The popup asks for the stored user (popup.js).
PopupGetCurrentUser ==
    /\ Len(bgq) < MaxSend
    /\ envBudget > 0
    /\ envBudget' = envBudget - 1
    /\ bgq' = Append(bgq, BgMsg("getCurrentUser", Null, Null, 0, "popup"))
    /\ UNCHANGED <<ext, session, calls, lastAuth, lastUser, peer, winq, cycles,
                   ctx, lastCyc, clean, last, probe, lookup, site>>

\* The content script of a Lingora tab sends syncAuth with the credential
\* it saw on its page, or with a null token.
TabSyncAuth ==
    /\ Len(bgq) < MaxSend
    /\ \E t \in Tokens \cup {Null} :
         bgq' = Append(bgq, IF t = Null
                            THEN BgMsg("syncAuth", Null, Null, 0, "tab")
                            ELSE BgMsg("syncAuth", t, Owner(t), 0, "tab"))
    /\ envBudget > 0
    /\ envBudget' = envBudget - 1
    /\ UNCHANGED <<ext, session, calls, lastAuth, lastUser, peer, winq, cycles, ctx,
                   lastCyc, clean, last, probe, lookup, site>>

\* ---------------------------------------------------------- specifications
StoreInit == ext \in {NoCred} \cup {Cred(t) : t \in Tokens}

QuietInit ==
    /\ calls = [c \in CallIds |-> IdleCall]
    /\ bgq = <<>>
    /\ lastAuth = NoAuth
    /\ lastUser = Null
    /\ cycles = [k \in CycIds |-> IdleCycle]
    /\ ctx = TRUE
    /\ lastCyc = [set |-> FALSE, webAuth |-> NoSnapshot]
    /\ clean = FALSE
    /\ last = [tag |-> "none", wasAuth |-> FALSE]
    /\ lookup = IdleLookup
    /\ site = WebApp
    /\ probe = NoProbe

\* The service worker with its callers; no Lingora page is open.
ApiInit ==
    /\ StoreInit
    /\ session \in Users \cup {Null}
    /\ peer = WebStore(Null, Null)
    /\ winq = <<>>
    /\ envBudget = MaxStimuli
    /\ QuietInit

ApiNext ==
    \/ \E c \in CallIds, kind \in Kinds : Invoke(c, kind)
    \/ \E c \in CallIds, action \in OtherActions : InvokeOther(c, action)
    \/ \E c \in CallIds : ReadToken(c)
    \/ \E c \in CallIds : FetchFails(c)
    \/ \E c \in CallIds : Fetch401(c)
    \/ \E c \in CallIds : FetchNotOk(c)
    \/ \E c \in CallIds : FetchOk(c)
    \/ \E c \in CallIds : RefreshOk(c)
    \/ \E c \in CallIds : RefreshFails(c)
    \/ \E c \in CallIds : RefreshMalformed(c)
    \/ \E c \in CallIds : SetToken(c)
    \/ \E c \in CallIds : ClearAndThrow(c)
    \/ \E c \in CallIds : LoginSetToken(c)
    \/ \E c \in CallIds : LoginSetUser(c)
    \/ \E c \in CallIds : LogoutClear(c)
    \/ PopupCheckAuth
    \/ TabSyncAuth
    \/ BgCheckAuth
    \/ BgSyncAuth

ApiSpec == ApiInit /\ [][ApiNext]_vars

\* A Lingora page has just loaded: the bridge has posted its initial report.
SyncInit ==
    /\ StoreInit
    /\ session = Null
    /\ peer \in PeerStates
    /\ winq = <<Report(peer)>>
    /\ envBudget = MaxEnv
    /\ QuietInit

SyncCore ==
    \/ \E k \in CycIds : DeliverReport(k)
    \/ \E k \in CycIds : Decide(k)
    \/ \E k \in CycIds : CycleEnd(k)
    \/ DeliverSetWebAuth
    \/ BgCheckAuth
    \/ BgSyncAuth

SyncNext ==
    \/ SyncCore
    \/ DeliverInvalidToken
    \/ StorageEvent
    \/ PostInvalidToken
    \/ Invalidate

SyncSpec == SyncInit /\ [][SyncNext]_vars

\* Convergence of the synchroniser: nobody logs in or out, the channel to
\* the background stays intact, every posted message is eventually handled.
LiveSyncSpec == SyncInit /\ [][SyncCore]_vars /\ WF_vars(SyncCore)

\* The request pipeline on its own: every awaited operation of a running
\* call eventually resolves.
CallStep(c) ==
    \/ ReadToken(c) \/ FetchFails(c) \/ Fetch401(c) \/ FetchNotOk(c)
    \/ FetchOk(c) \/ RefreshOk(c) \/ RefreshFails(c) \/ RefreshMalformed(c)
    \/ SetToken(c)
    \/ ClearAndThrow(c) \/ LoginSetToken(c) \/ LoginSetUser(c)
    \/ LogoutClear(c)

PipelineNext ==
    \/ \E c \in CallIds, kind \in Kinds : Invoke(c, kind)
    \/ \E c \in CallIds, action \in OtherActions : InvokeOther(c, action)
    \/ \E c \in CallIds : CallStep(c)

LiveApiSpec ==
    ApiInit /\ [][PipelineNext]_vars /\ \A c \in CallIds : WF_vars(CallStep(c))

\* apiRequest's handling of one response, for every response that is not a
\* 401 of an authenticated request.
ResponseInit ==
    /\ ext = NoCred
    /\ session = Null
    /\ peer = WebStore(Null, Null)
    /\ winq = <<>>
    /\ envBudget = 0
    /\ calls = [c \in CallIds |-> IdleCall]
    /\ bgq = <<>>
    /\ lastAuth = NoAuth
    /\ lastUser = Null
    /\ cycles = [k \in CycIds |-> IdleCycle]
    /\ ctx = TRUE
    /\ lastCyc = [set |-> FALSE, webAuth |-> NoSnapshot]
    /\ clean = FALSE
    /\ last = [tag |-> "none", wasAuth |-> FALSE]
    /\ lookup = IdleLookup
    /\ site = WebApp
    /\ probe \in {p \in [r : Responses(StatusCodes), skipAuth : BOOLEAN,
                          out : {NoOutcome}] :
                     p.r.status = 401 => p.skipAuth}

ResponseSpec == ResponseInit /\ [][ApplyHandleResponse]_vars

\* The URL of one request, for every value of ENVIRONMENT, every stored
\* apiBaseUrl and every endpoint.
UrlInit ==
    /\ ext = NoCred
    /\ session = Null
    /\ peer = WebStore(Null, Null)
    /\ winq = <<>>
    /\ envBudget = 0
    /\ calls = [c \in CallIds |-> IdleCall]
    /\ bgq = <<>>
    /\ lastAuth = NoAuth
    /\ lastUser = Null
    /\ cycles = [k \in CycIds |-> IdleCycle]
    /\ ctx = TRUE
    /\ lastCyc = [set |-> FALSE, webAuth |-> NoSnapshot]
    /\ clean = FALSE
    /\ last = [tag |-> "none", wasAuth |-> FALSE]
    /\ lookup = IdleLookup
    /\ site = WebApp
    /\ probe \in [ENVIRONMENT : Environments, apiBaseUrl : StoredBaseUrls,
                   endpoint : Endpoints, url : {Absent}]

UrlSpec == UrlInit /\ [][ResolveUrl]_vars

\* The store before and after a successful refresh, for every content of
\* the store and every token the backend may issue.
RefreshStoreInit ==
    /\ ext = NoCred
    /\ session = Null
    /\ peer = WebStore(Null, Null)
    /\ winq = <<>>
    /\ envBudget = 0
    /\ calls = [c \in CallIds |-> IdleCall]
    /\ bgq = <<>>
    /\ lastAuth = NoAuth
    /\ lastUser = Null
    /\ cycles = [k \in CycIds |-> IdleCycle]
    /\ ctx = TRUE
    /\ lastCyc = [set |-> FALSE, webAuth |-> NoSnapshot]
    /\ clean = FALSE
    /\ last = [tag |-> "none", wasAuth |-> FALSE]
    /\ lookup = IdleLookup
    /\ site = WebApp
    /\ \E st \in Storages, t \in Tokens :
         probe = [store |-> st, token |-> t, after |-> st, applied |-> FALSE]

RefreshStoreSpec == RefreshStoreInit /\ [][RefreshStores]_vars

\* The request pipeline with the passing of time.
TimedNext ==
    \/ PipelineNext
    \/ \E c \in CallIds : Tick(c)

TimedSpec == ApiInit /\ [][TimedNext]_vars

\* The service worker with the popup reading the store between the calls.
ReadNext ==
    \/ ApiNext
    \/ PopupGetCurrentUser
    \/ BgGetCurrentUser

ReadSpec == ApiInit /\ [][ReadNext]_vars

\* A Lingora page stays open while the popup is used and other tabs sync.
PageInit ==
    /\ StoreInit
    /\ session = Null
    /\ peer \in PeerStates
    /\ winq = <<Report(peer)>>
    /\ envBudget = MaxStimuli
    /\ QuietInit

PageNext ==
    \/ SyncNext
    \/ PopupCheckAuth
    \/ TabSyncAuth

PageSpec == PageInit /\ [][PageNext]_vars

\* The injected bridge facing whatever the page's scripts post and whatever
\* localStorage holds.
BridgeInit ==
    /\ StoreInit
    /\ session = Null
    /\ peer \in AllPeerStates
    /\ winq = <<Report(peer)>>
    /\ envBudget = MaxEnv
    /\ QuietInit

BridgeNext ==
    \/ SyncNext
    \/ PostGetWebAuth
    \/ PostSetWebAuth
    \/ DeliverGetWebAuth

BridgeSpec == BridgeInit /\ [][BridgeNext]_vars

\* Looking up selected text on any page.
LookupInit ==
    /\ StoreInit
    /\ session = Null
    /\ peer = WebStore(Null, Null)
    /\ winq = <<>>
    /\ envBudget = MaxStimuli
    /\ QuietInit

LookupNext ==
    \/ \E term \in Terms : StartLookup(term)
    \/ LookupAuthAnswer
    \/ LookupAnswer

LookupSpec == LookupInit /\ [][LookupNext]_vars

\* Looking up selected text while the extension may be reloaded.
ReloadNext ==
    \/ LookupNext
    \/ Invalidate

ReloadSpec == LookupInit /\ [][ReloadNext]_vars

\* The content script on any page, with the page's scripts posting window
\* messages of every type.
SiteInit ==
    /\ StoreInit
    /\ session = Null
    /\ site \in Locations
    /\ peer \in PeerStates
    /\ winq = IF isLingoraDomain(site) THEN <<Report(peer)>> ELSE <<>>
    /\ envBudget = MaxEnv
    /\ calls = [c \in CallIds |-> IdleCall]
    /\ bgq = <<>>
    /\ lastAuth = NoAuth
    /\ lastUser = Null
    /\ cycles = [k \in CycIds |-> IdleCycle]
    /\ ctx = TRUE
    /\ lastCyc = [set |-> FALSE, webAuth |-> NoSnapshot]
    /\ clean = FALSE
    /\ last = [tag |-> "none", wasAuth |-> FALSE]
    /\ lookup = IdleLookup
    /\ probe = NoProbe

SiteNext ==
    \/ BridgeNext
    \/ PostWebAuthData
    \/ Discard

SiteSpec == SiteInit /\ [][SiteNext]_vars

\* The whole extension: a Lingora page next to the service worker's callers.
Init == SyncInit
Next == ApiNext \/ SyncNext
Spec == Init /\ [][Next]_vars

\* ------------------------------------------------------------------ claims
InRequest(c) == calls[c].pc \in {"token", "fetch", "refresh", "setToken", "clear"}

\* C1: a call of apiRequest made without skipAuth refreshes the token, and
\* reissues its request, at most once.
C1_AtMostOneRefresh == \A c \in CallIds : calls[c].nrefresh <= 1

\* C2: when the refresh after a 401 has failed, apiRequest throws the
\* session-expired error, and at that moment accessToken and user are both
\* absent from the extension's storage.
C2_SessionExpiredClears ==
    [][\A c \in CallIds :
         /\ (calls[c].pc = "refresh" /\ calls'[c].pc \notin {"refresh", "setToken"})
              => calls'[c].pc = "clear"
         /\ (calls[c].pc = "clear" /\ calls'[c].pc # "clear")
              => /\ ext' = NoCred
                 /\ calls[c].kind # "logout"
                      => (calls'[c].pc = "done" /\ calls'[c].result = "SessionExpired")
                 /\ calls[c].kind = "logout" => calls'[c].pc = "logoutClear"]_vars

C2_Witness ==
    \E c \in CallIds :
        /\ calls[c].pc = "done" /\ calls[c].result = "SessionExpired"
        /\ ext = NoCred

\* C3: a cycle whose snapshot carries token T1 while the extension reported
\* no token or another token ends with the extension storing T1 and the
\* snapshot's user.
C3_Adopt ==
    [][\A k \in CycIds :
         (/\ cycles[k].pc # "done" /\ cycles'[k].pc = "done"
          /\ cycles'[k].did # "fail"
          /\ cycles'[k].webAuth.valid
          /\ cycles'[k].webAuth.accessToken # Null
          /\ cycles'[k].extAuth.accessToken # cycles'[k].webAuth.accessToken)
         => /\ ext'.accessToken = cycles'[k].webAuth.accessToken
            /\ ext'.user = cycles'[k].webAuth.user]_vars

C3_Witness ==
    \E k \in CycIds :
        /\ cycles[k].pc = "done" /\ cycles[k].did = "adopt"
        /\ cycles[k].extAuth.isAuthenticated
        /\ cycles[k].extAuth.accessToken # cycles[k].webAuth.accessToken
        /\ cycles[k].extAuth.user # cycles[k].webAuth.user
        /\ cycles[k].webAuth.user # Null
        /\ ext.accessToken = cycles[k].webAuth.accessToken
        /\ ext.user = cycles[k].webAuth.user

\* C4: a cycle in which the extension reported a token and the snapshot
\* has none sends LINGORA_SET_WEB_AUTH and ends with the extension's
\* credential as the cycle found it.
C4_PushKeepsCredential ==
    [][\A k \in CycIds :
         (/\ cycles[k].pc # "done" /\ cycles'[k].pc = "done"
          /\ cycles'[k].did # "fail"
          /\ cycles'[k].extAuth.isAuthenticated
          /\ cycles'[k].webAuth.accessToken = Null)
         => /\ cycles'[k].did \in {"push", "pushLogout"}
            /\ ext'.accessToken = cycles'[k].extAuth.accessToken
            /\ ext'.user = cycles'[k].extAuth.user]_vars

\* C5: LINGORA_INVALID_TOKEN, with the channel to the background intact,
\* makes the content script send a syncAuth with a null token and nothing
\* to the page, and handling that syncAuth leaves the extension without
\* accessToken and user.
C5_InvalidTokenLogsOut ==
    [][/\ (/\ winq # <<>> /\ Head(winq).type = "LINGORA_INVALID_TOKEN"
           /\ Len(winq') < Len(winq) /\ ctx)
          => /\ winq' = Tail(winq)
             /\ bgq' = Append(bgq, BgMsg("syncAuth", Null, Null, 0, "invalid"))
       /\ (/\ bgq # <<>> /\ Head(bgq).tag = "invalid"
           /\ bgq' = Tail(bgq) /\ ctx')
          => ext' = NoCred]_vars

C5_Witness == last.tag = "invalid" /\ last.wasAuth /\ ext = NoCred

\* C6: a cycle run on the snapshot of the cycle completed just before it,
\* no store having been written in between, sends no message and writes
\* nothing.
C6_Idempotent ==
    [][\A k \in CycIds :
         (/\ cycles[k].pc = "decide" /\ cycles[k].rerun
          /\ cycles'[k].pc \in {"sync", "done"})
         => (bgq' = bgq /\ winq' = winq /\ ext' = ext /\ peer' = peer)]_vars

\* No message is in flight and no listener instance is running.
Quiet == winq = <<>> /\ bgq = <<>> /\ \A k \in CycIds : cycles[k].pc = "idle"

C8_NoMixedRead ==
    (lastAuth.accessToken # Null /\ lastAuth.user # Null)
        => Owner(lastAuth.accessToken) = lastAuth.user

\* C9: a request issued without skipAuth while token T is stored carries
\* exactly one Authorization header, 'Bearer T'.
C9_BearerOnce ==
    \A c \in CallIds :
        (calls[c].pc = "fetch" /\ ~Options(calls[c].kind).skipAuth
         /\ calls[c].tok # Null)
        => /\ Cardinality({p \in calls[c].sent : p[1] = "Authorization"}) = 1
           /\ <<"Authorization", Bearer(calls[c].tok)>> \in calls[c].sent

\* C10: every call of apiRequest eventually returns or throws, given that
\* every fetch and storage operation completes.
C10_Terminates == \A c \in CallIds : InRequest(c) ~> ~InRequest(c)

\* C11: handleMessage always settles with a response, which is either the
\* operation's result or {error: message} with the message of the error
\* that occurred: the server's message or the generic text for a non-2xx
\* answer, 'Unknown action: <action>' for an action without a case, the
\* TypeError's message for googleLogin.
C11_AnswerShape ==
    \A c \in CallIds :
        calls[c].pc = "done" =>
            LET r == calls[c].resp
                o == calls[c].ret
            IN  /\ r # NoResponse
                /\ r.error # Absent => r.value = Undefined
                /\ r.error = Absent => r.value.kind = "return"
                /\ (o.kind = "throw" /\ calls[c].kind # "logout")
                     => r.error = o.message
                /\ (o.kind = "return" \/ calls[c].kind = "logout")
                     => r.error = Absent
                /\ calls[c].kind = "bogus" => r.error = "Unknown action: bogus"
                /\ calls[c].kind = "googleLogin"
                     => r.error = "api.googleLogin is not a function"

C11_Witness ==
    \E c, d \in CallIds :
        /\ calls[c].pc = "done" /\ calls[c].kind = "bogus"
        /\ calls[c].resp.error = "Unknown action: bogus"
        /\ calls[d].pc = "done" /\ calls[d].result = "RequestFailed"
        /\ calls[d].resp.error = "denied"

\* C12: a cycle that finds both sides without a token, or both with the
\* same token (whatever their users), sends no syncAuth and no
\* LINGORA_SET_WEB_AUTH and leaves both stores as they are.
C12_NoOp ==
    [][\A k \in CycIds :
         LET w == cycles[k].webAuth
             e == cycles[k].extAuth
         IN  (/\ cycles[k].pc = "decide" /\ cycles'[k].pc \in {"sync", "done"}
              /\ \/ ~e.isAuthenticated /\ (~w.valid \/ w.accessToken = Null)
                 \/ /\ e.isAuthenticated /\ w.valid
                    /\ w.accessToken = e.accessToken)
             => /\ cycles'[k].pc = "done" /\ cycles'[k].did = "none"
                /\ bgq' = bgq /\ winq' = winq
                /\ ext' = ext /\ peer' = peer]_vars

C12_Witness ==
    \E k \in CycIds :
        /\ cycles[k].pc = "done" /\ cycles[k].did = "none"
        /\ cycles[k].extAuth.isAuthenticated
        /\ cycles[k].webAuth.valid
        /\ cycles[k].webAuth.accessToken = cycles[k].extAuth.accessToken
        /\ cycles[k].webAuth.user # cycles[k].extAuth.user
        /\ ext.accessToken = cycles[k].extAuth.accessToken
        /\ ext.user = cycles[k].extAuth.user

\* C13: the login request carries no Authorization header whatever is
\* stored, never leads to a refresh or to clearAuthToken, and a failing
\* answer to it (401 included) ends the call with an error response in a
\* step that leaves the extension's storage unchanged.
C13_SkipAuth401 ==
    [][\A c \in CallIds :
         calls'[c].kind = "login" =>
            /\ calls'[c].pc = "fetch"
                 => "Authorization" \notin Names(calls'[c].sent)
            /\ calls'[c].pc \notin {"token", "refresh", "setToken", "clear"}
            /\ (/\ calls[c].pc = "fetch" /\ calls'[c].pc = "done"
                /\ calls'[c].result = "RequestFailed")
                 => /\ ext' = ext
                    /\ calls'[c].resp.error = calls'[c].ret.message
                    /\ calls'[c].resp.error # Absent]_vars

C13_Witness ==
    \E c \in CallIds :
        /\ calls[c].kind = "login" /\ calls[c].pc = "done"
        /\ calls[c].resp.error = "Request failed with status 401"
        /\ ext.accessToken # Null /\ ext.user # Null

\* C14: the step in which api.logout returns leaves accessToken and user
\* absent, and it returns (no error reaches the response) whether the
\* remote logout succeeded, failed in the network, was answered non-2xx or
\* ended in the session-expired error.
C14_LogoutClears ==
    [][\A c \in CallIds :
         (/\ calls'[c].kind = "logout"
          /\ calls[c].pc # "done" /\ calls'[c].pc = "done")
         => /\ ext' = NoCred
            /\ calls'[c].resp.error = Absent]_vars

C14_Witness ==
    \E c, d \in CallIds :
        /\ calls[c].kind = "logout" /\ calls[c].pc = "done"
        /\ calls[c].ret = Throw(NetworkErrorMsg)
        /\ calls[d].kind = "logout" /\ calls[d].pc = "done"
        /\ calls[d].ret = Throw(SessionExpiredMsg)
        /\ calls[c].resp.error = Absent /\ calls[d].resp.error = Absent
        /\ ext = NoCred

\* C15: every outcome of the refresh request other than a 2xx answer
\* carrying a token makes refreshToken return false (the caller goes on to
\* clearAuthToken) and leaves the extension's storage unchanged.
C15_RefreshFailureReturnsFalse ==
    [][\A c \in CallIds :
         (/\ calls[c].pc = "refresh" /\ calls'[c].pc # "refresh"
          /\ ~(/\ calls'[c].pc = "setToken"
               /\ calls'[c].pend.accessToken \in Tokens))
         => (calls'[c].pc = "clear" /\ ext' = ext)]_vars

\* C16: the token T' of a successful refresh is stored when setAuthToken
\* resolves, and the request reissued after it is the same request and
\* carries Authorization 'Bearer T''.
C16_ReissueWithNewToken ==
    [][\A c \in CallIds :
         /\ (/\ calls[c].pc = "setToken" /\ calls'[c].pc # "setToken"
             /\ calls[c].pend.accessToken \in Tokens)
              => /\ ext'.accessToken = calls[c].pend.accessToken
                 /\ calls'[c].kind = calls[c].kind
         /\ (/\ calls[c].pc = "token" /\ calls'[c].pc = "fetch"
             /\ calls[c].pend.accessToken \in Tokens)
              => <<"Authorization", Bearer(calls[c].pend.accessToken)>>
                     \in calls'[c].sent]_vars

\* C17: a response that is not 2xx (and not a 401 of an authenticated
\* request) makes apiRequest throw the message its body supplies (JSON
\* message field, or non-empty non-JSON text), else 'Request failed with
\* status N'; a 2xx response makes it return the parsed JSON body,
\* {message: text} for non-empty non-JSON text, {} for an empty body.
C17_ResponseHandling ==
    probe.out # NoOutcome =>
        LET r == probe.r
            supplied == CASE r.json /\ r.text = MessageBody -> "denied"
                          [] ~r.json /\ r.text # EmptyBody -> r.text
                          [] OTHER -> Absent
        IN  IF IsOk(r.status)
            THEN probe.out =
                   CASE r.text = EmptyBody -> Return(Absent, FALSE)
                     [] r.json -> Return(supplied, r.text = EnvelopeBody)
                     [] OTHER -> Return(r.text, FALSE)
            ELSE probe.out =
                   Throw(IF supplied # Absent
                         THEN supplied
                         ELSE "Request failed with status " \o ToString(r.status))

\* C18: a fetch that fails in the transport ends its apiRequest with that
\* failure: the call goes on to no refresh and no second fetch, the
\* extension's storage is unchanged, and (api.logout apart, which catches
\* it) the failure is what the caller is answered.
C18_TransportFailure ==
    [][\A c \in CallIds :
         (/\ calls[c].pc = "fetch" /\ calls'[c] # calls[c]
          /\ calls'[c].ret = Throw(NetworkErrorMsg))
         => /\ ext' = ext
            /\ calls'[c].nrefresh = calls[c].nrefresh
            /\ IF calls[c].kind = "logout"
               THEN calls'[c].pc = "logoutClear"
               ELSE /\ calls'[c].pc = "done"
                    /\ calls'[c].resp.error = NetworkErrorMsg]_vars

C18_Witness ==
    \E c \in CallIds :
        /\ calls[c].pc = "done" /\ calls[c].kind = "lookupWord"
        /\ calls[c].ret = Throw(NetworkErrorMsg)
        /\ calls[c].resp.error = NetworkErrorMsg
        /\ calls[c].nrefresh = 1
        /\ ext.accessToken # Null

\* C19: no fetch is still pending once more than API_CONFIG.timeout
\* milliseconds have passed since it was issued.
C19_TimeoutBounds ==
    \A c \in CallIds :
        calls[c].pc \in {"fetch", "refresh"}
            => calls[c].waited <= API_CONFIG.timeout

\* C20: a cycle that ends because sending to the background failed writes
\* nothing to either store, posts nothing to the page in that step, and
\* has logged a diagnostic.
C20_DegradedMode ==
    [][\A k \in CycIds :
         (/\ cycles[k].pc # "done" /\ cycles'[k].pc = "done"
          /\ cycles'[k].did = "fail")
         => /\ ext' = ext /\ peer' = peer
            /\ Len(winq') <= Len(winq)
            /\ cycles'[k].diag]_vars

\* C26: the request handed to fetch carries Content-Type application/json
\* exactly when it has a JSON-serialized body; with a FormData body or no
\* body it carries no Content-Type.
C26_ContentTypeOnlyForJson ==
    \A c \in CallIds :
        calls[c].pc = "fetch" =>
            /\ (<<"Content-Type", Json>> \in calls[c].sent)
                  <=> (Options(calls[c].kind).body = "json")
            /\ Options(calls[c].kind).body # "json"
                  => "Content-Type" \notin Names(calls[c].sent)

\* C29: a cycle whose snapshot is present without a token while the
\* extension reported a token sends syncAuth with a null token, and the
\* handling of that message leaves the extension without accessToken and
\* user.
C29_LogoutSync ==
    [][/\ \A k \in CycIds :
            LET w == cycles[k].webAuth
                e == cycles[k].extAuth
            IN  (/\ cycles[k].pc = "decide" /\ cycles'[k].pc \in {"sync", "done"}
                 /\ w.valid /\ w.accessToken = Null /\ e.isAuthenticated)
                => /\ cycles'[k].pc = "sync"
                   /\ bgq' = Append(bgq, BgMsg("syncAuth", Null, Null, k, "cycle"))
       /\ (/\ bgq # <<>> /\ Head(bgq).action = "syncAuth"
           /\ Head(bgq).tag = "cycle" /\ Head(bgq).accessToken = Null
           /\ bgq' = Tail(bgq) /\ ctx' = ctx)
          => ext' = NoCred]_vars

C29_Witness ==
    \E k \in CycIds :
        /\ cycles[k].pc = "done" /\ cycles[k].did = "pushLogout"
        /\ cycles[k].extAuth.isAuthenticated
        /\ cycles[k].webAuth.valid /\ cycles[k].webAuth.accessToken = Null
        /\ last.tag = "cycle"
        /\ ext = NoCred

\* C30: with nobody logging in, a page whose storage is readable and holds
\* no credential is not given one: the extension's token is not written
\* back to it.
C30_LogoutSticks ==
    [][(peer.accessToken = Null /\ peer.auth = Null)
          => peer'.accessToken = Null]_vars

\* C21: a reconciliation cycle is started (a report is posted for the
\* content script) (a) when the page loads, (b) when the peer's auth keys
\* change, and (c) when the extension's stored auth is queried from outside
\* a cycle on a quiet page and differs from the snapshot of the last cycle.
C21_CycleTriggers ==
    [][/\ (/\ winq # <<>> /\ Head(winq).type = "LINGORA_SET_WEB_AUTH"
            /\ Head(winq).accessToken # Null
            /\ winq' # winq /\ Len(winq') <= Len(winq))
           => winq' = <<Report(peer')>>
       /\ (peer' # peer /\ envBudget' # envBudget)
           => winq' = Append(winq, Report(peer'))
       /\ (/\ bgq # <<>> /\ Head(bgq).action = "checkAuth"
            /\ Head(bgq).from = 0
            /\ bgq' = Tail(bgq) /\ ctx /\ ctx'
            /\ winq = <<>> /\ \A k \in CycIds : cycles[k].pc = "idle"
            /\ lastCyc.set
            /\ HandleCheckAuth(ext).accessToken # lastCyc.webAuth.accessToken)
           => \/ Len(winq') > Len(winq)
              \/ \E k \in CycIds : cycles'[k].pc # "idle"]_vars

\* C22: the state left by handling syncAuth with a token T and a user U is
\* one in which checkAuth, handled next, answers isAuthenticated = true,
\* accessToken = T and user = U.
C22_RoundTrip ==
    [][(/\ bgq # <<>> /\ Head(bgq).action = "syncAuth"
        /\ Head(bgq).accessToken # Null
        /\ bgq' = Tail(bgq) /\ ctx /\ ctx')
       => HandleCheckAuth(ext') =
              [isAuthenticated |-> TRUE,
               accessToken |-> Head(bgq).accessToken,
               user |-> Head(bgq).user]]_vars

C22_Witness ==
    /\ last.tag = "tab"
    /\ lastAuth.isAuthenticated
    /\ lastAuth.user # Null
    /\ lastAuth = HandleCheckAuth(ext)
    /\ bgq = <<>>

\* C23 (as stated): handling LINGORA_GET_WEB_AUTH leaves localStorage
\* unchanged and posts one LINGORA_WEB_AUTH_DATA message carrying the token
\* and the user that localStorage holds; so does the report on a storage
\* change.
C23_ReportCarriesStorage ==
    [][/\ (/\ winq # <<>> /\ Head(winq).type = "LINGORA_GET_WEB_AUTH"
            /\ winq' # winq /\ Len(winq') <= Len(winq))
           => /\ peer' = peer
              /\ Len(winq') = Len(winq)
              /\ SubSeq(winq', 1, Len(winq) - 1) = Tail(winq)
              /\ LET m == winq'[Len(winq')]
                 IN  /\ m.type = "LINGORA_WEB_AUTH_DATA"
                     /\ m.accessToken = peer.accessToken
                     /\ peer.auth # Corrupt => m.user = peer.auth
       /\ (/\ envBudget' # envBudget /\ Len(winq') > Len(winq)
            /\ winq'[Len(winq')].type = "LINGORA_WEB_AUTH_DATA")
           => LET m == winq'[Len(winq')]
              IN  /\ m.accessToken = peer'.accessToken
                  /\ peer'.auth # Corrupt => m.user = peer'.auth]_vars

\* C23 (amended): handling LINGORA_GET_WEB_AUTH leaves localStorage
\* unchanged and posts one LINGORA_WEB_AUTH_DATA message; its data are the
\* token and the user localStorage holds when auth-storage parses, and null
\* when it does not, whatever the token.
C23_ReportCarriesReadableStorage ==
    [][/\ (/\ winq # <<>> /\ Head(winq).type = "LINGORA_GET_WEB_AUTH"
            /\ winq' # winq /\ Len(winq') <= Len(winq))
           => /\ peer' = peer
              /\ Len(winq') = Len(winq)
              /\ SubSeq(winq', 1, Len(winq) - 1) = Tail(winq)
              /\ LET m == winq'[Len(winq')]
                 IN  /\ m.type = "LINGORA_WEB_AUTH_DATA"
                     /\ IF peer.auth = Corrupt
                        THEN ~m.valid
                        ELSE /\ m.valid
                             /\ m.accessToken = peer.accessToken
                             /\ m.user = peer.auth
       /\ (/\ envBudget' # envBudget /\ Len(winq') > Len(winq)
            /\ winq'[Len(winq')].type = "LINGORA_WEB_AUTH_DATA")
           => LET m == winq'[Len(winq')]
              IN  IF peer'.auth = Corrupt
                  THEN ~m.valid
                  ELSE /\ m.valid
                       /\ m.accessToken = peer'.accessToken
                       /\ m.user = peer'.auth]_vars

\* A snapshot request was answered from a localStorage holding a token next
\* to an unparsable auth-storage.
C23_Witness ==
    /\ envBudget = 0
    /\ peer.accessToken # Null /\ peer.auth = Corrupt
    /\ winq # <<>>
    /\ winq[Len(winq)].type = "LINGORA_WEB_AUTH_DATA"
    /\ ~winq[Len(winq)].valid
    /\ \A i \in 1..Len(winq) : winq[i].type # "LINGORA_GET_WEB_AUTH"
    /\ lastCyc.set

\* C24: handling LINGORA_SET_WEB_AUTH with a token writes the token and an
\* auth-storage holding the pushed user, isAuthenticated = true and the
\* name of the user's first role (null without roles), then reloads the
\* page; with an empty token it writes nothing and the page stays.
C24_SetWebAuth ==
    [][(/\ winq # <<>> /\ Head(winq).type = "LINGORA_SET_WEB_AUTH"
        /\ winq' # winq /\ Len(winq') <= Len(winq))
       => LET d == Head(winq)
          IN  IF d.accessToken # Null
              THEN /\ peer'.accessToken = d.accessToken
                   /\ peer'.auth = d.user
                   /\ peer'.isAuthenticated
                   /\ peer'.activeRole =
                        IF d.user # Null /\ Len(RolesOf(d.user)) > 0
                        THEN Head(RolesOf(d.user)) ELSE NoRole
                   /\ winq' = <<Report(peer')>>
                   /\ \A k \in CycIds : cycles'[k] = IdleCycle
              ELSE /\ peer' = peer
                   /\ winq' = Tail(winq)
                   /\ cycles' = cycles]_vars

\* The page was reloaded after a push of a user with roles.
C24_Witness ==
    /\ peer.accessToken # Null /\ peer.auth # Null /\ peer.auth # Corrupt
    /\ peer.isAuthenticated
    /\ peer.activeRole = "LEARNER"
    /\ peer.accessToken = ext.accessToken
    /\ \E k \in CycIds : cycles[k].pc = "check"
    /\ lastCyc.set /\ ~lastCyc.webAuth.valid

\* C25: handling checkAuth or getCurrentUser starts no request and writes
\* nothing to extension storage, and the checkAuth answer says
\* isAuthenticated exactly when it carries a token.
C25_PureReads ==
    [][(/\ bgq # <<>>
        /\ Head(bgq).action \in {"checkAuth", "getCurrentUser"}
        /\ bgq' = Tail(bgq))
       => /\ ext' = ext
          /\ calls' = calls
          /\ session' = session
          /\ lastAuth'.isAuthenticated <=> (lastAuth'.accessToken # Null)
          /\ Head(bgq).action = "checkAuth"
                => /\ lastAuth'.accessToken = ext.accessToken
                   /\ lastAuth'.user = ext.user
          /\ Head(bgq).action = "getCurrentUser" => lastUser' = ext.user]_vars

\* Both reads were answered from a store holding a credential.
C25_Witness ==
    /\ lastUser # Null
    /\ lastAuth.isAuthenticated
    /\ lastAuth.user = lastUser
    /\ bgq = <<>>

\* C28: a request goes to the stored apiBaseUrl when one is present, and
\* otherwise to the backend config.js gives for ENVIRONMENT
\* (https://lingora-be-dxce.onrender.com for 'production').
C28_BackendFromConfig ==
    (probe.url # Absent) =>
        probe.url =
            (IF probe.apiBaseUrl \notin {Absent, ""}
             THEN probe.apiBaseUrl
             ELSE CONFIG(probe.ENVIRONMENT).backend.baseUrl) \o probe.endpoint

\* C27: for an authenticated user a term without a space is sent as one
\* lookupWord message and no translatePhrase message, a term with a space
\* as one translatePhrase message and no lookupWord message; an answer
\* with an error is shown as an error, not as a dictionary popup.
C27_LookupRouting ==
    [][/\ (lookup.pc = "auth" /\ lookup'.pc = "wait")
           => /\ ext.accessToken # Null
              /\ IF \E i \in DOMAIN lookup.term : lookup.term[i] = " "
                 THEN lookup'.nPhrase = 1 /\ lookup'.nWord = 0
                 ELSE lookup'.nWord = 1 /\ lookup'.nPhrase = 0
       /\ (lookup.pc = "auth" /\ ext.accessToken # Null) => lookup'.pc # "idle"
       /\ (lookup.pc = "wait" /\ lookup'.pc = "idle")
           => /\ lookup'.nWord = lookup.nWord
              /\ lookup'.nPhrase = lookup.nPhrase
              /\ lookup'.resp.error # Absent
                    => /\ lookup'.view = "error"
                       /\ lookup'.message = lookup'.resp.error]_vars

\* An authenticated user's second lookup, of a term with a line break and
\* no space, went out as a lookupWord message and was answered with an
\* error.
C27_Witness ==
    /\ lookup.pc = "idle"
    /\ envBudget = 0
    /\ lookup.nWord = 1 /\ lookup.nPhrase = 0
    /\ \A i \in DOMAIN lookup.term : lookup.term[i] # " "
    /\ \E i \in DOMAIN lookup.term : lookup.term[i] = "\n"
    /\ lookup.resp.error = SessionExpiredMsg
    /\ lookup.view = "error"

\* C31: once a logout has completed and the store holds no token, a token
\* appears in it only through a login's write or through a syncAuth that
\* carries one; a refresh begun before the logout does not store one.
C31_NoTokenAfterLogout ==
    [][(/\ \E d \in CallIds : calls[d].kind = "logout" /\ calls[d].pc = "done"
        /\ ext.accessToken = Null
        /\ ext'.accessToken # Null)
       => \/ \E c \in CallIds :
               calls[c].pc = "loginSetToken" /\ calls'[c].pc = "loginSetUser"
          \/ /\ bgq # <<>> /\ Head(bgq).action = "syncAuth"
             /\ Head(bgq).accessToken # Null /\ bgq' = Tail(bgq)]_vars

\* C32: while one request has just stored the token its refresh obtained
\* and is about to reissue, the failed refresh of another request does not
\* remove that token from the store.
C32_FreshTokenSurvives ==
    [][\A a, b \in CallIds :
         (/\ a # b
          /\ calls[a].pc = "token" /\ calls[a].nrefresh >= 1
          /\ calls[a].pend.accessToken # Null
          /\ ext.accessToken = calls[a].pend.accessToken
          /\ calls[b].pc = "clear" /\ calls'[b].pc = "done")
         => ext'.accessToken = ext.accessToken]_vars

\* C33: whenever the store holds a user it holds an access token.
C33_UserImpliesToken == ext.user # Null => ext.accessToken # Null

\* C35: when api.login returns for a response with token T and user U the
\* store holds exactly T and U; a login that fails, or whose response has
\* no access token, ends without having changed the store.
C35_LoginStores ==
    [][\A c \in CallIds :
         /\ (calls[c].pc = "loginSetUser" /\ calls'[c].pc = "done")
            => ext' = calls[c].pend
         /\ (/\ calls[c].kind = "login" /\ calls[c].pc = "fetch"
             /\ calls'[c].pc = "done")
            => ext' = ext]_vars

\* C36: a successful refresh leaves the stored user, the stored apiBaseUrl
\* and the set of stored keys as they were, and stores the new token.
C36_RefreshFrame ==
    probe.applied =>
        /\ probe.after.accessToken = probe.token
        /\ probe.after.user = probe.store.user
        /\ probe.after.apiBaseUrl = probe.store.apiBaseUrl
        /\ DOMAIN probe.after = DOMAIN probe.store

\* A refresh replaced the token of a store that holds a user and a base URL.
C36_Witness ==
    /\ probe.applied
    /\ probe.store.accessToken # Null
    /\ probe.after.accessToken # probe.store.accessToken
    /\ probe.store.user # Null
    /\ probe.store.apiBaseUrl \notin {Absent, ""}

\* C37: when the bridge has applied LINGORA_SET_WEB_AUTH with a token T and
\* a user U, the one message waiting after the reload is a report with
\* accessToken = T and user = U.
C37_PeerRoundTrip ==
    [][(/\ winq # <<>> /\ Head(winq).type = "LINGORA_SET_WEB_AUTH"
        /\ Head(winq).accessToken # Null
        /\ winq' # winq /\ Len(winq') <= Len(winq))
       => /\ Len(winq') = 1
          /\ winq'[1].type = "LINGORA_WEB_AUTH_DATA"
          /\ winq'[1].valid
          /\ winq'[1].accessToken = Head(winq).accessToken
          /\ winq'[1].user = Head(winq).user]_vars

\* The cycle after the reload runs on the credential the extension pushed
\* over an unreadable auth-storage.
C37_Witness ==
    \E k \in CycIds :
        /\ cycles[k].pc = "decide"
        /\ cycles[k].webAuth.valid
        /\ cycles[k].webAuth.accessToken # Null
        /\ cycles[k].webAuth.user # Null
        /\ cycles[k].webAuth.accessToken = cycles[k].extAuth.accessToken
        /\ cycles[k].webAuth.user = cycles[k].extAuth.user
        /\ peer.accessToken = cycles[k].webAuth.accessToken
        /\ peer.auth = cycles[k].webAuth.user
        /\ lastCyc.set /\ ~lastCyc.webAuth.valid

\* C38: a lookup sends lookupWord or translatePhrase only after its
\* checkAuth was answered with isAuthenticated = true; answered otherwise
\* it ends with the login prompt, and when the checkAuth cannot be sent or
\* answered because the extension context is gone it ends with an error
\* popup, in both cases with no message sent.
C38_AuthBeforeLookup ==
    [][/\ (lookup'.nWord + lookup'.nPhrase > 0
            /\ lookup'.nWord + lookup'.nPhrase # lookup.nWord + lookup.nPhrase)
           => /\ lookup.pc = "auth" /\ ctx
              /\ ext.accessToken # Null
       /\ (lookup.pc = "auth" /\ ctx' /\ ext.accessToken = Null
            /\ lookup' # lookup)
           => /\ lookup'.pc = "idle" /\ lookup'.view = "login"
              /\ lookup'.nWord = 0 /\ lookup'.nPhrase = 0
       /\ (lookup.pc = "auth" /\ ~ctx')
           => /\ lookup'.pc = "idle" /\ lookup'.view = "error"
              /\ lookup'.nWord = 0 /\ lookup'.nPhrase = 0
       /\ (lookup.pc = "idle" /\ ~ctx /\ lookup' # lookup)
           => /\ lookup'.pc = "idle" /\ lookup'.view = "error"
              /\ lookup'.nWord = 0 /\ lookup'.nPhrase = 0]_vars

\* A lookup that found the extension context gone, when sending checkAuth
\* or while waiting for its answer, ended with the error popup and sent
\* nothing else.
C38_Witness ==
    /\ ~ctx
    /\ lookup.pc = "idle"
    /\ lookup.term # <<>>
    /\ lookup.view = "error"
    /\ lookup.message = UpdatedError
    /\ lookup.nWord = 0 /\ lookup.nPhrase = 0

\* C34: on a page whose host is neither localhost:3000 nor
\* lingora-web-app.vercel.app no bridge reports, and whatever messages the
\* page posts, no syncAuth is sent and the extension's stored credential
\* stays as it is.
C34_ForeignPagesCannotSync ==
    [][(/\ ~(site.hostname = "localhost" /\ site.port = "3000")
        /\ site.hostname # "lingora-web-app.vercel.app")
       => /\ ext' = ext
          /\ \A i \in 1..Len(bgq') : bgq'[i].action # "syncAuth"
          /\ \A k \in CycIds : cycles'[k] = IdleCycle
          /\ Len(winq') > Len(winq) => envBudget' < envBudget
          /\ peer' = peer]_vars

\* On such a page a posted message was dispatched with nothing sent to the
\* background.
C34_Witness ==
    /\ ~isLingoraDomain(site)
    /\ site.hostname = "localhost"
    /\ envBudget = 0 /\ ctx
    /\ winq = <<>> /\ bgq = <<>>
    /\ ext.accessToken # Null

====
